---- MODULE Spec2Model ----
(***************************************************************************)
(* BaseModel (base/base_model.py): the lifecycle of a TensorFlow 1.x model *)
(* object -- construction (graph, global step, subclass hook, saver,       *)
(* init_op, mode), checkpoint load/save, the stub entry points and the     *)
(* train loop documented in the docstring of BaseModel.train.              *)
(*                                                                         *)
(* The TensorFlow calls the class makes are modelled by what they do:      *)
(*   tf.Variable(...)                  adds a variable to the GLOBAL (or,  *)
(*                                     for metrics, LOCAL) collection of   *)
(*                                     the current default graph;          *)
(*   tf.train.Saver()                  tracks the global variables of the  *)
(*                                     current default graph;              *)
(*   tf.global/local_variables_initializer()  an op of the current default *)
(*                                     graph over that graph's variables;  *)
(*   saver.save(sess, save_path, step) writes the files save_path-<step>*  *)
(*                                     and the state file "checkpoint" in  *)
(*                                     os.path.dirname(save_path);         *)
(*   tf.train.latest_checkpoint(dir)   reads os.path.join(dir,"checkpoint")*)
(***************************************************************************)
EXTENDS Integers, Sequences, FiniteSets, TLC

\* ---------------------------------------------------------------- bounds
\* largest value of the global step explored
MaxStep == 1
\* largest value of the weight variable explored
MaxW == 1
\* largest n_epoch explored
MaxEpoch == 2
\* largest number of batches in the dataset explored
MaxBatch == 2
\* largest global step a documented train call may reach
MaxTrainStep == 4
\* largest number of times build_model is run again on a constructed model
MaxRebuild == 1

\* --------------------------------------------------------------- values
\* Python None where a checkpoint directory is expected
None == <<"None">>

\* BaseModel.ModeKeys
TRAIN == "train"
EVAL == "eval"
PREDICT == "infer"
RETRAIN == "retrain"
\* the attribute self.mode before __init__ has assigned it
NoMode == "unset"

\* the ambient default graph and a graph the caller builds
DefaultGraph == "default"
OtherGraph == "g1"
Graphs == {DefaultGraph, OtherGraph}
NoGraph == "unset"

\* variables a graph may hold: tf.Variable makes a new variable at every call,
\* so the k-th run of build_model makes <<"global_step", k>> (global_step,
\* global_step_1, ...), and likewise for what _init_graph creates
GlobalStepName == "global_step"
WeightName == "w"
MetricName == "acc"
VarNames == {GlobalStepName, WeightName, MetricName} \X (0..MaxRebuild)
\* the variable named exactly "global_step", the one tf.train.get_global_step() finds
FirstGlobalStep == <<GlobalStepName, 0>>

\* value of a variable that the session has not initialised
Uninit == -1
WVals == 0..MaxW

\* checkpoint directories: strings as sequences of characters, two
\* directories, one written without and one with the trailing separator
Paths == { <<"a">>, <<"b", "/">> }
\* the file name tf.train.latest_checkpoint and Saver.save use for the state file
CheckpointFileName == <<"checkpoint">>

\* kinds of subclass: _init_graph not overridden, a trivial graph (no variable
\* of its own), a net with a weight and a metric (tf.metrics.* makes local variables)
HookKinds == {"unoverridden", "trivial", "metrics"}

\* ------------------------------------------------------ os.path, as used
\* index of the last "/" of p, 0 if none (str.rfind + 1)
LastSlash(p) ==
  LET S == {i \in 1..Len(p) : p[i] = "/"}
  IN IF S = {} THEN 0 ELSE CHOOSE i \in S : \A j \in S : j <= i

AllSlashes(p) == \A i \in 1..Len(p) : p[i] = "/"

RECURSIVE RStripSlash(_)
RStripSlash(p) ==
  IF p # <<>> /\ p[Len(p)] = "/" THEN RStripSlash(SubSeq(p, 1, Len(p) - 1)) ELSE p

\* os.path.dirname
Dirname(p) ==
  LET head == SubSeq(p, 1, LastSlash(p))
  IN IF head # <<>> /\ ~AllSlashes(head) THEN RStripSlash(head) ELSE head

\* os.path.join(a, b) for a relative b
Join(a, b) ==
  IF a = <<>> \/ a[Len(a)] = "/" THEN a \o b ELSE a \o <<"/">> \o b

\* the file a path names: its components, empty ones dropped, and whether it
\* is absolute ("a//b", "a/b" and "a/b/" name the same file)
RECURSIVE Split(_, _, _)
Split(p, cur, acc) ==
  IF p = <<>> THEN (IF cur = <<>> THEN acc ELSE Append(acc, cur))
  ELSE IF Head(p) = "/"
       THEN Split(Tail(p), <<>>, IF cur = <<>> THEN acc ELSE Append(acc, cur))
       ELSE Split(Tail(p), Append(cur, Head(p)), acc)

FileOf(p) == <<p # <<>> /\ p[1] = "/", Split(p, <<>>, <<>>)>>

\* the state file tf.train.latest_checkpoint(ckpt_dir) reads
StateFileRead(ckpt_dir) == FileOf(Join(ckpt_dir, CheckpointFileName))

\* the state file saver.save(sess, save_path, ...) writes
StateFileWritten(save_path) == FileOf(Join(Dirname(save_path), CheckpointFileName))

\* every state file the explored paths can name
StateFiles == {StateFileRead(p) : p \in Paths} \cup {StateFileWritten(p) : p \in Paths}

\* ---------------------------------------------------------------- state
VARIABLES
  pc,          \* position of BaseModel.__init__: "start", "recorded", "gs",
               \* "hooked", "saver", "initop", "ready"; "failed" once it raised
  hook,        \* the kind of subclass being constructed (how _init_graph is overridden)
  config,      \* self.config: [set, ckpt_dir]
  graph,       \* self.graph
  gvars,       \* per graph, its GLOBAL_VARIABLES collection
  lvars,       \* per graph, its LOCAL_VARIABLES collection
  saver,       \* self.saver: [built, vars] -- the variables the Saver tracks
  builds,      \* how many times build_model has run to its end
  init_op,     \* self.init_op: [built, graph, vars]
  mode,        \* self.mode
  sess,        \* the caller's session on self.graph: value of each variable
  ckpt,        \* the file system: per state file, the checkpoint it names
  lastOp,      \* the most recent call and how it ended
  order,       \* the construction steps performed so far, in order
  saved,       \* what the last successful save wrote, and with which directory
  tr           \* the train call in progress (documented train loop)

vars == <<pc, hook, config, graph, gvars, lvars, saver, builds, init_op, mode, sess,
          ckpt, lastOp, order, saved, tr>>

NoVals == [v \in VarNames |-> Uninit]
NoCkpt == [exists |-> FALSE, path |-> None, step |-> 0, vals |-> NoVals]
NoOp == [op |-> "none", arg |-> None, err |-> "none", found |-> FALSE]
NoSaved == [valid |-> FALSE, dir |-> None, vals |-> NoVals]
NoTrain == [pc |-> "idle", n_epoch |-> 0, n_batch |-> 0, epoch |-> 0, pos |-> 0,
            startMode |-> NoMode, initRuns |-> 0, updates |-> 0, saves |-> 0,
            startStep |-> 0, stepAtSave |-> 0, seen |-> FALSE, firstSeen |-> NoVals,
            afterLoad |-> FALSE, restored |-> NoVals]

Op(name, arg, err, found) == [op |-> name, arg |-> arg, err |-> err, found |-> found]

Init ==
  /\ pc = "start"
  /\ hook \in HookKinds
  /\ config = [set |-> FALSE, ckpt_dir |-> None]
  /\ graph = NoGraph
  /\ gvars = [g \in Graphs |-> {}]
  /\ lvars = [g \in Graphs |-> {}]
  /\ saver = [built |-> FALSE, vars |-> {}]
  /\ builds = 0
  /\ init_op = [built |-> FALSE, graph |-> NoGraph, vars |-> {}]
  /\ mode = NoMode
  /\ sess = NoVals
  /\ ckpt = [f \in StateFiles |-> NoCkpt]
  /\ lastOp = NoOp
  /\ order = <<>>
  /\ saved = NoSaved
  /\ tr = NoTrain

\* ------------------------------------------------------- construction
\* __init__, lines 36-41: self.config = config; self.graph = graph or the default
RecordConfigGraph(ckpt_dir, graphArg) ==
  /\ pc = "start"
  /\ config' = [set |-> TRUE, ckpt_dir |-> ckpt_dir]
  /\ graph' = IF graphArg = NoGraph THEN DefaultGraph ELSE graphArg
  /\ pc' = "recorded"
  /\ order' = Append(order, "record")
  /\ UNCHANGED <<hook, gvars, lvars, saver, builds, init_op, mode, sess, ckpt, lastOp, saved, tr>>

\* build_model / _init_global_step: tf.Variable(0, trainable=False,
\* name='global_step') under `with self.graph.as_default()`
InitGlobalStep ==
  /\ pc = "recorded"
  /\ gvars' = [gvars EXCEPT ![graph] = @ \cup {<<GlobalStepName, builds>>}]
  /\ pc' = "gs"
  /\ order' = Append(order, "global_step")
  /\ UNCHANGED <<hook, config, graph, lvars, saver, builds, init_op, mode, sess, ckpt, lastOp, saved, tr>>

\* the variables the subclass's _init_graph creates in its k-th run
HookGlobals(h, k) == IF h = "metrics" THEN {<<WeightName, k>>} ELSE {}
HookLocals(h, k) == IF h = "metrics" THEN {<<MetricName, k>>} ELSE {}

\* mutant: the base _init_graph returns instead of raising
InitGraphPasses ==
  /\ pc = "gs"
  /\ order' = Append(order, "init_graph")
  /\ pc' = "hooked"
  /\ gvars' = [gvars EXCEPT ![graph] = @ \cup HookGlobals(hook, builds)]
  /\ lvars' = [lvars EXCEPT ![graph] = @ \cup HookLocals(hook, builds)]
  /\ UNCHANGED <<hook, config, graph, saver, builds, init_op, mode, sess, ckpt, lastOp, saved, tr>>

\* build_model: self._init_graph(), still under `with self.graph.as_default()`;
\* the base implementation raises NotImplementedError, which ends __init__
InitGraph ==
  /\ pc = "gs"
  /\ order' = Append(order, "init_graph")
  /\ IF hook = "unoverridden"
     THEN /\ pc' = "failed"
          /\ lastOp' = Op("__init__", None, "NotImplementedError", FALSE)
          /\ UNCHANGED <<gvars, lvars>>
     ELSE /\ pc' = "hooked"
          /\ gvars' = [gvars EXCEPT ![graph] = @ \cup HookGlobals(hook, builds)]
          /\ lvars' = [lvars EXCEPT ![graph] = @ \cup HookLocals(hook, builds)]
          /\ UNCHANGED lastOp
  /\ UNCHANGED <<hook, config, graph, saver, builds, init_op, mode, sess, ckpt, saved, tr>>

\* tf.train.Saver() with no var_list: the saveable (global) variables of the
\* current default graph at the time of the call
SaverVarList(g) == gvars[g]

\* mutant: the saver is constructed before _init_graph has made its variables
InitSaverBeforeHook ==
  /\ pc = "hooked"
  /\ saver' = [built |-> TRUE, vars |-> SaverVarList(graph) \ HookGlobals(hook, builds)]
  /\ builds' = builds + 1
  /\ pc' = "saver"
  /\ order' = Append(order, "saver")
  /\ UNCHANGED <<hook, config, graph, gvars, lvars, init_op, mode, sess, ckpt, lastOp, saved, tr>>

\* build_model / _init_saver: self.saver = tf.train.Saver(), the last statement
\* under `with self.graph.as_default()`
InitSaver ==
  /\ pc = "hooked"
  /\ saver' = [built |-> TRUE, vars |-> SaverVarList(graph)]
  /\ builds' = builds + 1
  /\ pc' = "saver"
  /\ order' = Append(order, "saver")
  /\ UNCHANGED <<hook, config, graph, gvars, lvars, init_op, mode, sess, ckpt, lastOp, saved, tr>>

\* the graph tf.global_variables_initializer() is built in at line 44: the
\* `with self.graph.as_default()` block of build_model has been left, so it is
\* the ambient default graph
InitOpGraph == DefaultGraph

\* __init__, line 44: self.init_op = tf.group(tf.global_variables_initializer(),
\* tf.local_variables_initializer())
BuildInitOp ==
  /\ pc = "saver"
  /\ init_op' = [built |-> TRUE, graph |-> InitOpGraph,
                 vars |-> gvars[InitOpGraph] \cup lvars[InitOpGraph]]
  /\ pc' = "initop"
  /\ order' = Append(order, "init_op")
  /\ UNCHANGED <<hook, config, graph, gvars, lvars, saver, builds, mode, sess, ckpt, lastOp, saved, tr>>

\* __init__, line 46: self.mode = self.ModeKeys.TRAIN
SetModeTrain ==
  /\ pc = "initop"
  /\ mode' = TRAIN
  /\ pc' = "ready"
  /\ order' = Append(order, "mode")
  /\ lastOp' = Op("__init__", None, "none", FALSE)
  /\ UNCHANGED <<hook, config, graph, gvars, lvars, saver, builds, init_op, sess, ckpt, saved, tr>>

Construct ==
  \/ \E d \in Paths \cup {None}, g \in Graphs \cup {NoGraph} : RecordConfigGraph(d, g)
  \/ InitGlobalStep
  \/ InitGraph
  \/ InitSaver
  \/ BuildInitOp
  \/ SetModeTrain

\* what __init__ alone assigns
built == <<pc, hook, config, graph, init_op, order>>
\* what build_model assigns, inside __init__ and whenever it is called again
graphState == <<gvars, lvars, saver, builds>>

\* self.global_step: the variable the last run of _init_global_step made
SelfGlobalStep == <<GlobalStepName, builds - 1>>

\* BaseModel.build_model() called on a constructed model: under
\* `with self.graph.as_default()` it makes a new global-step variable, runs
\* the subclass's _init_graph again and replaces self.saver by a Saver over
\* all global variables the graph now has; self.init_op is not rebuilt
BuildModel ==
  /\ pc = "ready" /\ tr.pc = "idle"
  /\ builds <= MaxRebuild
  /\ gvars' = [gvars EXCEPT ![graph] =
                 @ \cup {<<GlobalStepName, builds>>} \cup HookGlobals(hook, builds)]
  /\ lvars' = [lvars EXCEPT ![graph] = @ \cup HookLocals(hook, builds)]
  /\ saver' = [built |-> TRUE, vars |-> gvars'[graph]]
  /\ builds' = builds + 1
  /\ lastOp' = Op("build_model", None, "none", FALSE)
  /\ saved' = NoSaved
  /\ UNCHANGED <<built, mode, sess, ckpt, tr>>

\* ------------------------------------------------------ the session
\* the values tf.Variable's initializer gives: global_step starts at 0
\* (line 154), the metric accumulator at 0, the weight at w0
InitialValue(v, w0) == IF v[1] = WeightName THEN w0 ELSE 0

\* the values of the variables a Saver over `tracked` reads from the session
Tracked(vals, tracked) == [v \in VarNames |-> IF v \in tracked THEN vals[v] ELSE Uninit]

\* sess.run(op) where op is the init op: an op of another graph than the
\* session's cannot be run (ValueError: not an element of this graph)
CanRunInitOp == init_op.graph = graph

\* the session after sess.run(self.init_op)
AfterInitOp(w0) ==
  [v \in VarNames |-> IF v \in init_op.vars THEN InitialValue(v, w0) ELSE sess[v]]

\* the caller runs sess.run(model.init_op) (as the documented train does, line 94)
RunInitOp ==
  /\ pc = "ready" /\ tr.pc = "idle"
  /\ IF CanRunInitOp
     THEN /\ \E w0 \in WVals : sess' = AfterInitOp(w0)
          /\ lastOp' = Op("run_init_op", None, "none", FALSE)
     ELSE /\ sess' = sess
          /\ lastOp' = Op("run_init_op", None, "ValueError", FALSE)
  /\ UNCHANGED <<built, graphState, mode, ckpt, saved, tr>>

\* the values an assignment may give a variable
ValuesOf(v) == IF v[1] = GlobalStepName THEN 0..MaxStep
               ELSE IF v[1] = WeightName THEN WVals ELSE {0}

\* the caller runs an op that updates a saved variable of the model's graph
\* (sess.run of a training op, as in lines 100-102): the update reads the
\* variable, so it fails (FailedPreconditionError) on an uninitialised one
Assign(v, val) ==
  /\ pc = "ready" /\ tr.pc = "idle"
  /\ v \in gvars[graph]
  /\ IF sess[v] # Uninit
     THEN /\ sess' = [sess EXCEPT ![v] = val]
          /\ lastOp' = Op("assign", None, "none", FALSE)
     ELSE /\ sess' = sess
          /\ lastOp' = Op("assign", None, "FailedPreconditionError", FALSE)
  /\ UNCHANGED <<built, graphState, mode, ckpt, saved, tr>>

\* ------------------------------------------------------ load and save
\* mutant: config.ckpt_dir wins over the argument
ResolveConfigFirst(arg) == IF config.ckpt_dir # None THEN config.ckpt_dir ELSE arg

\* lines 171-172 / 186-187: the argument if given, else config.ckpt_dir
ResolveCkptDir(arg) == IF arg = None THEN config.ckpt_dir ELSE arg

\* lines 173 / 188: the assert, reached only when the argument is None
AssertFails(arg) == arg = None /\ config.ckpt_dir = None

\* tf.train.latest_checkpoint(ckpt_dir): the checkpoint the state file
\* ckpt_dir/checkpoint names, if that file exists
LatestCheckpoint(ckpt_dir) == ckpt[StateFileRead(ckpt_dir)]

\* self.saver.restore(sess, latest_ckpt) looks every tracked variable up in
\* the checkpoint: one the checkpoint does not hold (it was written by a
\* Saver made before the variable was) fails the restore with NotFoundError
CanRestore(latest) == \A v \in saver.vars : latest.vals[v] # Uninit

\* self.saver.restore(sess, latest_ckpt): every tracked variable takes the stored value
Restore(latest) ==
  [v \in VarNames |-> IF v \in saver.vars THEN latest.vals[v] ELSE sess[v]]

\* mutant: load restores but forgets to set the mode
LoadKeepsMode(arg) ==
  /\ pc = "ready" /\ tr.pc = "idle"
  /\ IF AssertFails(arg)
     THEN /\ lastOp' = Op("load", arg, "AssertionError", FALSE)
          /\ UNCHANGED sess
     ELSE LET latest == LatestCheckpoint(ResolveCkptDir(arg))
          IN IF latest.exists
             THEN IF CanRestore(latest)
                  THEN /\ sess' = Restore(latest)
                       /\ lastOp' = Op("load", arg, "none", TRUE)
                  ELSE /\ lastOp' = Op("load", arg, "NotFoundError", TRUE)
                       /\ UNCHANGED sess
             ELSE /\ lastOp' = Op("load", arg, "none", FALSE)
                  /\ UNCHANGED sess
  /\ UNCHANGED <<built, graphState, mode, ckpt, saved, tr>>

\* mutant: load sets RETRAIN whether or not a checkpoint was found
LoadAlwaysRetrain(arg) ==
  /\ pc = "ready" /\ tr.pc = "idle"
  /\ IF AssertFails(arg)
     THEN /\ lastOp' = Op("load", arg, "AssertionError", FALSE)
          /\ UNCHANGED <<mode, sess>>
     ELSE LET latest == LatestCheckpoint(ResolveCkptDir(arg))
          IN IF latest.exists
             THEN IF CanRestore(latest)
                  THEN /\ sess' = Restore(latest)
                       /\ mode' = RETRAIN
                       /\ lastOp' = Op("load", arg, "none", TRUE)
                  ELSE /\ lastOp' = Op("load", arg, "NotFoundError", TRUE)
                       /\ UNCHANGED <<mode, sess>>
             ELSE /\ mode' = RETRAIN
                  /\ lastOp' = Op("load", arg, "none", FALSE)
                  /\ UNCHANGED sess
  /\ UNCHANGED <<built, graphState, ckpt, saved, tr>>

\* BaseModel.load(sess, ckpt_dir=arg)
Load(arg) ==
  /\ pc = "ready" /\ tr.pc = "idle"
  /\ IF AssertFails(arg)
     THEN /\ lastOp' = Op("load", arg, "AssertionError", FALSE)
          /\ UNCHANGED <<mode, sess>>
     ELSE LET latest == LatestCheckpoint(ResolveCkptDir(arg))
          IN IF latest.exists
             THEN IF CanRestore(latest)
                  THEN /\ sess' = Restore(latest)
                       /\ mode' = RETRAIN
                       /\ lastOp' = Op("load", arg, "none", TRUE)
                  ELSE /\ lastOp' = Op("load", arg, "NotFoundError", TRUE)
                       /\ UNCHANGED <<mode, sess>>
             ELSE /\ lastOp' = Op("load", arg, "none", FALSE)
                  /\ UNCHANGED <<mode, sess>>
  /\ UNCHANGED <<built, graphState, ckpt, saved, tr>>

\* saving reads every tracked variable: an uninitialised one makes the save
\* op fail (FailedPreconditionError) before anything is written
CanSave == \A v \in saver.vars : sess[v] # Uninit

\* self.saver.save(sess, ckpt_dir, self.global_step): ckpt_dir is the
\* save_path, i.e. the prefix of the files written; the state file
\* "checkpoint" goes to os.path.dirname(save_path) and names the new checkpoint
SaverSave(ckpt_dir) ==
  [ckpt EXCEPT ![StateFileWritten(ckpt_dir)] =
     [exists |-> TRUE, path |-> ckpt_dir, step |-> sess[SelfGlobalStep],
      vals |-> Tracked(sess, saver.vars)]]

\* BaseModel.save(sess, ckpt_dir=arg)
Save(arg) ==
  /\ pc = "ready" /\ tr.pc = "idle"
  /\ IF AssertFails(arg)
     THEN /\ lastOp' = Op("save", arg, "AssertionError", FALSE)
          /\ UNCHANGED <<ckpt, saved>>
     ELSE IF ~CanSave
     THEN /\ lastOp' = Op("save", arg, "FailedPreconditionError", FALSE)
          /\ UNCHANGED <<ckpt, saved>>
     ELSE /\ ckpt' = SaverSave(ResolveCkptDir(arg))
          /\ saved' = [valid |-> TRUE, dir |-> ResolveCkptDir(arg),
                       vals |-> Tracked(sess, saver.vars)]
          /\ lastOp' = Op("save", arg, "none", FALSE)
  /\ UNCHANGED <<built, graphState, mode, sess, tr>>

\* ------------------------------------------------------------ the stubs
\* BaseModel.train / evaluate / predict as defined in the base class:
\* `raise NotImplementedError` (lines 119, 134, 150)
Stub(name) ==
  /\ pc = "ready" /\ tr.pc = "idle"
  /\ lastOp' = Op(name, None, "NotImplementedError", FALSE)
  /\ UNCHANGED <<built, graphState, mode, sess, ckpt, saved, tr>>

Train == Stub("train")

\* mutant: evaluate records the mode it runs in before raising
EvaluateSetsMode ==
  /\ pc = "ready" /\ tr.pc = "idle"
  /\ mode' = EVAL
  /\ lastOp' = Op("evaluate", None, "NotImplementedError", FALSE)
  /\ UNCHANGED <<built, graphState, sess, ckpt, saved, tr>>

Evaluate == Stub("evaluate")
Predict == Stub("predict")

Next ==
  \/ Construct
  \/ \E arg \in Paths \cup {None} : Load(arg)
  \/ \E arg \in Paths \cup {None} : Save(arg)
  \/ Train
  \/ Evaluate
  \/ Predict
  \/ RunInitOp
  \/ \E v \in VarNames : \E val \in ValuesOf(v) : Assign(v, val)
  \/ BuildModel

Spec == Init /\ [][Next]_vars

\* ------------------------------------------- the documented train loop
\* BaseModel.train as its docstring gives it (lines 93-106), the body a
\* subclass is told to write.  tr.pc is the position in it:
\*   "init"  at `if self.mode == self.ModeKeys.TRAIN`      (line 93)
\*   "epoch" at `for _ in range(self.config.n_epoch)`      (line 96)
\*   "batch" at `sess.run(ds_iter.get_next())`             (line 100)
\*   "save"  at `self.save(sess)`                          (line 106)
\*   "idle"  outside train
TrainReturn(err) == Op("train", None, err, FALSE)

\* train is called right after a load that restored a checkpoint
AfterLoad == lastOp.op = "load" /\ lastOp.found /\ lastOp.err = "none"

\* the caller calls train(sess, dataset) with config.n_epoch = ne and a
\* dataset of nb batches
TrainCall(ne, nb) ==
  /\ pc = "ready" /\ tr.pc = "idle"
  /\ (IF mode = TRAIN THEN 0 ELSE sess[FirstGlobalStep]) + ne * nb <= MaxTrainStep
  /\ tr' = [NoTrain EXCEPT !.pc = "init", !.n_epoch = ne, !.n_batch = nb,
                           !.startMode = mode, !.afterLoad = AfterLoad,
                           !.restored = IF AfterLoad THEN Tracked(sess, saver.vars)
                                        ELSE NoVals]
  /\ lastOp' = TrainReturn("running")
  /\ UNCHANGED <<built, graphState, mode, sess, ckpt, saved>>

\* mutant: init_op is run whatever the mode
RunsInitOpAlways == TRUE

\* lines 93-94: if self.mode == self.ModeKeys.TRAIN: sess.run(self.init_op)
RunsInitOp == mode = TRAIN

TrainInit ==
  /\ tr.pc = "init"
  /\ IF RunsInitOp
     THEN IF CanRunInitOp
          THEN /\ \E w0 \in WVals : sess' = AfterInitOp(w0)
               /\ tr' = [tr EXCEPT !.pc = "epoch", !.initRuns = @ + 1,
                                   !.startStep = sess'[FirstGlobalStep]]
                            /\ UNCHANGED lastOp
          ELSE /\ tr' = [tr EXCEPT !.pc = "idle", !.initRuns = @ + 1]
               /\ lastOp' = TrainReturn("ValueError")
               /\ UNCHANGED sess
     ELSE /\ tr' = [tr EXCEPT !.pc = "epoch", !.startStep = sess[FirstGlobalStep]]
          /\ UNCHANGED <<sess, lastOp>>
  /\ UNCHANGED <<built, graphState, mode, ckpt, saved>>

\* line 96-97: the next epoch makes a fresh one-shot iterator, or the loop
\* is over and train returns
TrainEpoch ==
  /\ tr.pc = "epoch"
  /\ IF tr.epoch < tr.n_epoch
     THEN /\ tr' = [tr EXCEPT !.pc = "batch", !.pos = 0]
          /\ UNCHANGED lastOp
     ELSE /\ tr' = [tr EXCEPT !.pc = "idle"]
          /\ lastOp' = TrainReturn("none")
  /\ UNCHANGED <<built, graphState, mode, sess, ckpt, saved>>

\* the variables self.train_op reads and writes: the weight its run of
\* _init_graph made and the variable tf.train.get_global_step() finds in
\* the graph, the one named "global_step" (line 83)
TrainOpVars == {FirstGlobalStep} \cup HookGlobals(hook, builds - 1)

\* the session after sess.run([self.loss, self.train_op]): the optimizer
\* updates the weight (to w1) and, through minimize(global_step=...),
\* adds one to the global step (line 83)
AfterTrainOp(w1) ==
  [v \in VarNames |->
     IF v = FirstGlobalStep THEN sess[v] + 1
     ELSE IF v \in TrainOpVars THEN w1 ELSE sess[v]]

\* lines 100-103: a batch is there; one training update (line 101), then
\* the log line reads self.global_step (line 103).  Either sess.run fails
\* on an uninitialised variable (FailedPreconditionError, which the loop's
\* `except tf.errors.OutOfRangeError` does not catch): the first before
\* anything is updated, the second with the update already made
TrainBatch ==
  /\ tr.pc = "batch"
  /\ tr.pos < tr.n_batch
  /\ IF \A v \in TrainOpVars : sess[v] # Uninit
     THEN /\ \E w1 \in WVals : sess' = AfterTrainOp(w1)
          /\ IF sess'[SelfGlobalStep] # Uninit
             THEN /\ tr' = [tr EXCEPT !.pos = @ + 1, !.updates = @ + 1, !.seen = TRUE,
                                      !.firstSeen = IF tr.seen THEN @
                                                    ELSE Tracked(sess, saver.vars)]
                  /\ UNCHANGED lastOp
             ELSE /\ tr' = [tr EXCEPT !.pc = "idle", !.pos = @ + 1,
                                      !.updates = @ + 1, !.seen = TRUE,
                                      !.firstSeen = IF tr.seen THEN @
                                                    ELSE Tracked(sess, saver.vars)]
                  /\ lastOp' = TrainReturn("FailedPreconditionError")
     ELSE /\ tr' = [tr EXCEPT !.pc = "idle"]
          /\ lastOp' = TrainReturn("FailedPreconditionError")
          /\ UNCHANGED sess
  /\ UNCHANGED <<built, graphState, mode, ckpt, saved>>

\* mutant: OutOfRangeError is not caught and ends train
TrainExhaustedRaises ==
  /\ tr.pc = "batch"
  /\ tr.pos = tr.n_batch
  /\ tr' = [tr EXCEPT !.pc = "idle"]
  /\ lastOp' = TrainReturn("OutOfRangeError")
  /\ UNCHANGED <<built, graphState, mode, sess, ckpt, saved>>

\* lines 104-105: get_next raises OutOfRangeError, caught: break
TrainExhausted ==
  /\ tr.pc = "batch"
  /\ tr.pos = tr.n_batch
  /\ tr' = [tr EXCEPT !.pc = "save"]
  /\ UNCHANGED <<built, graphState, mode, sess, ckpt, saved, lastOp>>

\* line 106: self.save(sess) -- save with no ckpt_dir argument; what it
\* raises ends train
TrainSave ==
  /\ tr.pc = "save"
  /\ IF AssertFails(None)
     THEN /\ tr' = [tr EXCEPT !.pc = "idle"]
          /\ lastOp' = TrainReturn("AssertionError")
          /\ UNCHANGED ckpt
     ELSE IF ~CanSave
     THEN /\ tr' = [tr EXCEPT !.pc = "idle"]
          /\ lastOp' = TrainReturn("FailedPreconditionError")
          /\ UNCHANGED ckpt
     ELSE /\ ckpt' = SaverSave(ResolveCkptDir(None))
          /\ tr' = [tr EXCEPT !.pc = "epoch", !.epoch = @ + 1, !.saves = @ + 1,
                              !.stepAtSave = sess[SelfGlobalStep]]
          /\ UNCHANGED lastOp
  /\ UNCHANGED <<built, graphState, mode, sess, saved>>

TrainStep == TrainInit \/ TrainEpoch \/ TrainBatch \/ TrainExhausted \/ TrainSave

NextTrain ==
  \/ Construct
  \/ \E arg \in Paths \cup {None} : Load(arg)
  \/ \E ne \in 0..MaxEpoch, nb \in 0..MaxBatch : TrainCall(ne, nb)
  \/ TrainStep
  \/ BuildModel

\* train runs in the caller's thread: once called it keeps taking its steps
TrainSpec == Init /\ [][NextTrain]_vars /\ WF_vars(TrainStep)

\* =================================================================
\* Properties
\* =================================================================
ConstructionOrder == <<"record", "global_step", "init_graph", "saver", "init_op", "mode">>
Ready == pc = "ready"
AllVars(g) == gvars[g] \cup lvars[g]
\* the global variables the first k runs of build_model create
BuiltGlobals(k) ==
  UNION { {<<GlobalStepName, j>>} \cup HookGlobals(hook, j) : j \in 0..(k - 1) }
\* construction has ended and build_model has not been called since
Constructed == Ready /\ builds = 1

\* C1, as stated: a construction whose hook succeeds performs record, global
\* step, _init_graph, saver, init_op, mode in this order, and at its end the
\* saver tracks ALL variables of the graph.
C1_AsStated ==
  Constructed => /\ order = ConstructionOrder
                 /\ saver.vars = AllVars(graph)

\* C1, amended: the steps happen in that order, the saver is never built
\* before the global step and the hook's variables exist, and at the end of
\* construction the saver tracks exactly the GLOBAL variables of self.graph
\* (global step and the hook's global variables); local variables, such as
\* the accumulators of tf.metrics, are not tracked.  (A later call of
\* build_model keeps this: each Saver tracks the global variables of all
\* runs of build_model so far.)
C1_OrderAndSaverVars ==
  /\ saver.built => /\ FirstGlobalStep \in gvars[graph]
                    /\ HookGlobals(hook, 0) \subseteq gvars[graph]
                    /\ HookLocals(hook, 0) \subseteq lvars[graph]
                    /\ SubSeq(order, 1, 4) = SubSeq(ConstructionOrder, 1, 4)
  /\ Constructed => /\ order = ConstructionOrder
                    /\ saver.vars = {FirstGlobalStep} \cup HookGlobals(hook, 0)
  /\ Ready => /\ saver.vars = gvars[graph]
              /\ saver.vars = BuiltGlobals(builds)
              /\ saver.vars \cap lvars[graph] = {}

C1_Witness ==
  /\ Constructed /\ hook = "metrics"
  /\ saver.vars = {FirstGlobalStep, <<WeightName, 0>>}
  /\ <<MetricName, 0>> \in lvars[graph]

\* C2: for a trivial subclass and any graph argument, construction ends with
\* mode = TRAIN and an init_op that is an operation of self.graph and
\* initialises every variable of that graph, the global step included.
C2_InitOpUsable ==
  (Constructed /\ lastOp.op = "__init__" /\ hook = "trivial") =>
     /\ mode = TRAIN
     /\ init_op.built
     /\ init_op.graph = graph
     /\ init_op.vars = AllVars(graph)
     /\ FirstGlobalStep \in init_op.vars

\* C3: after save(sess, d) and then load(sess, d) with the same d, whatever
\* was assigned in between, load finds the checkpoint just written and every
\* tracked variable holds the value it had when save was called.
C3_RoundTrip ==
  (/\ lastOp.op = "load" /\ lastOp.err = "none"
   /\ saved.valid
   /\ ResolveCkptDir(lastOp.arg) = saved.dir)
  => /\ lastOp.found
     /\ \A v \in saver.vars : sess[v] = saved.vals[v]

\* what C4 asks of one step that is a call of load or save
C4_Step ==
  lastOp'.op \in {"load", "save"} =>
    LET arg == lastOp'.arg IN
    /\ (arg = None /\ config.ckpt_dir = None)
         => (lastOp'.err = "AssertionError" /\ UNCHANGED <<mode, sess, ckpt, saver>>)
    /\ (arg # None \/ config.ckpt_dir # None) => lastOp'.err # "AssertionError"
    /\ (arg # None /\ lastOp'.op = "load")
         => /\ lastOp'.found = ckpt[StateFileRead(arg)].exists
            /\ (lastOp'.found /\ lastOp'.err = "none")
                 => \A v \in saver.vars : sess'[v] = ckpt[StateFileRead(arg)].vals[v]
            /\ ~lastOp'.found => sess' = sess
    /\ (arg # None /\ lastOp'.op = "save" /\ lastOp'.err = "none")
         => /\ ckpt'[StateFileWritten(arg)].path = arg
            /\ \A f \in StateFiles \ {StateFileWritten(arg)} : ckpt'[f] = ckpt[f]

\* C4: load or save with neither argument nor config.ckpt_dir raises the
\* assertion error and changes nothing (mode, variables, checkpoint files);
\* with either of them set the assertion is never raised, and a given
\* argument is the directory used, whatever config.ckpt_dir is.
C4_DirectoryResolution == [][C4_Step]_vars

\* a load whose argument names a directory with a checkpoint while
\* config.ckpt_dir names another directory, which has none
C4_Witness ==
  /\ lastOp.op = "load" /\ lastOp.arg # None /\ lastOp.err = "none"
  /\ config.ckpt_dir # None
  /\ StateFileRead(lastOp.arg) # StateFileRead(config.ckpt_dir)
  /\ lastOp.found /\ mode = RETRAIN
  /\ ckpt[StateFileRead(lastOp.arg)].path = lastOp.arg
  /\ ~ckpt[StateFileRead(config.ckpt_dir)].exists

\* C5: a load from a directory that has a latest checkpoint leaves
\* mode = RETRAIN and every tracked variable at the value stored in it.
C5_LoadRestores ==
  (lastOp.op = "load" /\ lastOp.found /\ lastOp.err = "none") =>
    LET latest == ckpt[StateFileRead(ResolveCkptDir(lastOp.arg))] IN
    /\ latest.exists
    /\ mode = RETRAIN
    /\ \A v \in saver.vars : sess[v] = latest.vals[v] /\ sess[v] # Uninit
    /\ sess[SelfGlobalStep] = latest.step

C5_Witness ==
  /\ lastOp.op = "load" /\ lastOp.found /\ lastOp.err = "none"
  /\ hook = "metrics"
  /\ sess[FirstGlobalStep] = 1 /\ sess[<<WeightName, 0>>] = 1

\* what C6 asks of one step that is a call of load
C6_Step ==
  (lastOp'.op = "load" /\ ~AssertFails(lastOp'.arg)
     /\ ~ckpt[StateFileRead(ResolveCkptDir(lastOp'.arg))].exists)
  => /\ lastOp'.err = "none"
     /\ ~lastOp'.found
     /\ UNCHANGED <<mode, sess, saver, ckpt>>

\* C6: a load from a directory without a checkpoint returns normally, restores
\* nothing and leaves mode, every variable and the saver as they were.
C6_LoadWithoutCheckpoint == [][C6_Step]_vars

C6_Witness ==
  /\ lastOp.op = "load" /\ lastOp.err = "none" /\ ~lastOp.found
  /\ saved.valid
  /\ sess[FirstGlobalStep] # Uninit

\* what C7 asks of every state
C7_State ==
  /\ hook = "unoverridden" => pc \in {"start", "recorded", "gs", "failed"}
  /\ pc = "failed" => /\ hook = "unoverridden"
                      /\ lastOp = Op("__init__", None, "NotImplementedError", FALSE)
                      /\ mode = NoMode /\ ~saver.built /\ ~init_op.built
  /\ lastOp.op \in {"train", "evaluate", "predict"} => lastOp.err = "NotImplementedError"

\* what C7 asks of one step that is a call of a stub
C7_Step ==
  lastOp'.op \in {"train", "evaluate", "predict"}
    => UNCHANGED <<built, graphState, mode, sess, ckpt>>

\* C7: the unoverridden train, evaluate and predict raise NotImplementedError
\* on every call, in every mode, changing nothing; an unoverridden
\* _init_graph raises it inside __init__, so that construction never completes.
C7_StubsRaise == []C7_State /\ [][C7_Step]_vars

C7_Witness ==
  /\ lastOp.op = "predict" /\ lastOp.err = "NotImplementedError"
  /\ mode = RETRAIN

\* what C8 asks of one step
C8_Step ==
  /\ mode' # mode =>
       \/ pc = "initop" /\ pc' = "ready" /\ mode' = TRAIN
       \/ lastOp'.op = "load" /\ lastOp'.found /\ lastOp'.err = "none"
                                /\ mode' = RETRAIN
  /\ mode = RETRAIN => mode' = RETRAIN

\* C8: mode is assigned only by construction (TRAIN) and by a load that
\* found a checkpoint (RETRAIN); on a constructed model it is TRAIN or
\* RETRAIN, and once RETRAIN it stays RETRAIN.
C8_ModeTransitions ==
  /\ [](Ready => mode \in {TRAIN, RETRAIN})
  /\ [](~Ready => mode = NoMode)
  /\ [][C8_Step]_vars

C8_Witness ==
  /\ mode = RETRAIN
  /\ lastOp.op = "save" /\ lastOp.err = "none"

\* ---------------------------------------------- the documented train
\* a train call has been made and is past its `if self.mode == TRAIN` line
PastInit == tr.startMode # NoMode /\ tr.pc # "init"
\* the train call has ended (returned or raised)
TrainEnded == lastOp.op = "train" /\ lastOp.err # "running" /\ tr.pc = "idle"
\* the state right after a save of the train loop
JustSaved == tr.pc = "epoch" /\ tr.saves > 0

\* C9: the documented train runs init_op once, at its start, when mode is
\* TRAIN and never when mode is RETRAIN; so in construct, load (found), train
\* the first training step sees the restored values, and after an init the
\* first step sees the initial global step.
C9_InitOnlyInTrainMode ==
  /\ tr.pc = "init" => tr.initRuns = 0
  /\ PastInit => tr.initRuns = (IF tr.startMode = TRAIN THEN 1 ELSE 0)
  /\ (tr.seen /\ tr.afterLoad) => (tr.startMode = RETRAIN /\ tr.firstSeen = tr.restored)
  /\ (tr.seen /\ tr.startMode = TRAIN) => tr.firstSeen[FirstGlobalStep] = 0

C9_Witness ==
  /\ tr.seen /\ tr.afterLoad
  /\ tr.initRuns = 0
  /\ tr.firstSeen[FirstGlobalStep] > 0
  /\ tr.firstSeen = tr.restored

\* C10, as stated (for a train call that is not cut short by an error of
\* init_op or save, on a model as construction left it): train ends having
\* saved n_epoch times, once per epoch, and the global step at each save is
\* the number of training updates run so far.
C10_AsStated ==
  /\ (TrainEnded /\ lastOp.err = "none") => tr.saves = tr.n_epoch
  /\ tr.pc \in {"epoch", "batch", "save"} => tr.saves = tr.epoch
  /\ (JustSaved /\ builds = 1) => tr.stepAtSave = tr.updates

\* the safety part of the amended C10
C10_State ==
  /\ tr.pc \in {"epoch", "batch", "save"} =>
       /\ tr.saves = tr.epoch
       /\ tr.epoch <= tr.n_epoch
       /\ tr.pos <= tr.n_batch
       /\ tr.updates = tr.epoch * tr.n_batch + (IF tr.pc = "epoch" THEN 0 ELSE tr.pos)
       /\ sess[FirstGlobalStep] = tr.startStep + tr.updates
       /\ tr.startMode = TRAIN => tr.startStep = 0
       /\ tr.afterLoad => tr.startStep = tr.restored[FirstGlobalStep]
  /\ tr.pc = "save" => tr.pos = tr.n_batch
  /\ JustSaved =>
       /\ tr.stepAtSave = sess[SelfGlobalStep]
       /\ builds = 1 => tr.stepAtSave = tr.startStep + tr.updates
       /\ ckpt[StateFileWritten(config.ckpt_dir)].step = tr.stepAtSave
  /\ TrainEnded =>
       /\ lastOp.err # "OutOfRangeError"
       /\ lastOp.err = "none" => /\ tr.saves = tr.n_epoch
                                 /\ tr.updates = tr.n_epoch * tr.n_batch

\* C10, amended: every train call ends; dataset exhaustion only ends the
\* epoch's batch loop and never reaches the caller; a call that returns
\* normally has saved once at the end of each epoch, n_epoch times in all,
\* each save after all updates of its epoch and before any of the next; the
\* graph's global step at each save is its value when the loop started (0
\* after init_op in TRAIN mode, the value in the session, such as the one
\* load restored, in RETRAIN mode) plus the number of updates run so far.
C10_TrainLoop == []C10_State /\ ((tr.pc # "idle") ~> (tr.pc = "idle"))

C10_Witness ==
  /\ TrainEnded /\ lastOp.err = "none"
  /\ tr.startMode = RETRAIN
  /\ tr.n_epoch = 2 /\ tr.saves = 2 /\ tr.updates = 2
  /\ tr.startStep > 0

====
